---- MODULE Spec2Model ----
(***************************************************************************)
(* A model of jopi-crawler's WebSiteCrawler (core.ts) and its             *)
(* WebSiteMirrorCache (webSiteMirrorCache.ts).                            *)
(*                                                                         *)
(* Strings are sequences of tokens.  The tokens that the code inspects     *)
(* one character at a time (":", "/", ".", "?", "#", " ", ",") are tokens  *)
(* of                                                                      *)
(* their own; a run of other characters ("https", "site", "css") is one    *)
(* token.  startsWith, indexOf, substring, split and + then work on the    *)
(* token sequence as they do on the characters.  Indexes are 1-based and   *)
(* an absent index is 0 where JavaScript gives -1.                         *)
(***************************************************************************)
EXTENDS Integers, Sequences, FiniteSets, Bags, TLC

VARIABLES
    urlDone,         \* WebSiteCrawler.urlDone
    isStarted,       \* WebSiteCrawler.isStarted
    currentGroup,    \* WebSiteCrawler.currentGroup: a reference into groups
    groupStack,      \* WebSiteCrawler.groupStack: references into groups
    groups,          \* the UrlGroup objects, by reference (index)
    forbiddenUrls,   \* options.forbiddenUrls
    options,         \* which optional hooks / writer are configured
    pc,              \* where the start() call is suspended
    group,           \* processGroup's parameter `group` (a reference)
    url,             \* processUrl's parameter `url`
    kind,            \* which call of processUrl runs: "page" or "res"
    retryCount,      \* processUrl's local retryCount
    fetchRes,        \* processUrl's local res: the response of the last fetch
    processResponse, \* processGroup's local processResponse
    resources,       \* processGroup's local `resources` of the drain pass
    resIdx,          \* processGroup's loop index i (1-based)
    resState,        \* what the last processUrl call returned
    passes,          \* history: passes of the drain loop made for `group`
    fetchLog,        \* history: the bag of the urls processUrl was invoked with
    hookLog,         \* history: whether onPageFullyDownloaded answered false
    startCalls,      \* history: number of start() calls made
    faults,          \* history: the environment faults that happened
    arg,             \* the input at hand: the attribute value the rewriter met,
                     \* the Location header of a redirect, the urls given to
                     \* new UrlSortTools
    ret,             \* the output of a url operation; the UrlSortTools object
    mirror,          \* the files addToCache wrote, as hasInCache sees them,
                     \* each with the url it was written for
    infos,           \* processUrl's local infos: what hasInCache answered
    calls            \* history: the hooks the running processUrl call has called

vars == <<urlDone, isStarted, currentGroup, groupStack, groups, forbiddenUrls,
          options, pc, group, url, kind, retryCount, fetchRes, processResponse,
          resources, resIdx, resState, passes, fetchLog, hookLog, startCalls,
          faults, arg, ret, mirror, infos, calls>>

-----------------------------------------------------------------------------
(* String helpers (JavaScript String methods on token sequences).          *)

Null == <<>>

StartsWith(s, p) == Len(p) <= Len(s) /\ SubSeq(s, 1, Len(p)) = p

EndsWith(s, p) == Len(p) <= Len(s) /\ SubSeq(s, Len(s) - Len(p) + 1, Len(s)) = p

\* s.substring(i) with i the 1-based index of the first token kept
SubFrom(s, i) == SubSeq(s, i, Len(s))

\* s.includes(p) for a sequence p
IncludesSeq(s, p) == \E i \in 1..(Len(s) - Len(p) + 1) : SubSeq(s, i, i + Len(p) - 1) = p

Includes(s, t) == \E i \in 1..Len(s) : s[i] = t

\* s.indexOf(t): the first index of token t, 0 when absent
IndexOf(s, t) == IF Includes(s, t) THEN CHOOSE i \in 1..Len(s) : s[i] = t /\ \A j \in 1..(i - 1) : s[j] # t ELSE 0

\* s.lastIndexOf(t): the last index of token t, 0 when absent
LastIndexOf(s, t) == IF Includes(s, t) THEN CHOOSE i \in 1..Len(s) : s[i] = t /\ \A j \in (i + 1)..Len(s) : s[j] # t ELSE 0

RECURSIVE TrimStart(_)
TrimStart(s) == IF s # <<>> /\ s[1] = " " THEN TrimStart(Tail(s)) ELSE s

RECURSIVE TrimEnd(_)
TrimEnd(s) == IF s # <<>> /\ s[Len(s)] = " " THEN TrimEnd(SubSeq(s, 1, Len(s) - 1)) ELSE s

\* s.trim()
Trim(s) == TrimEnd(TrimStart(s))

\* one token, lower-cased
LowerToken(t) == CASE t = "HTTPS" -> "https" [] t = "SITE" -> "site" [] t = "A" -> "a" [] OTHER -> t

\* s.toLowerCase()
ToLowerCase(s) == [i \in 1..Len(s) |-> LowerToken(s[i])]

\* s.split(sep): the pieces between the occurrences of token sep
RECURSIVE Split(_, _)
Split(s, sep) ==
    LET i == IndexOf(s, sep)
    IN IF i = 0 THEN <<s>> ELSE <<SubSeq(s, 1, i - 1)>> \o Split(SubFrom(s, i + 1), sep)

\* pieces.join(sep)
RECURSIVE Join(_, _)
Join(pieces, sep) ==
    IF pieces = <<>> THEN <<>>
    ELSE IF Len(pieces) = 1 THEN pieces[1]
    ELSE pieces[1] \o <<sep>> \o Join(Tail(pieces), sep)

\* the elements of a sequence
Range(s) == {s[i] : i \in 1..Len(s)}

-----------------------------------------------------------------------------
(* The configuration of the crawler instance that is modelled:             *)
(*   new WebSiteCrawler("https://up", {newWebSiteUrl: "https://site", ...})*)
(* with no requiredPrefix option, so that the defaults of the constructor  *)
(* apply.                                                                  *)

\* new URL(sourceWebSite).origin
sourceWebSiteOrigin == <<"https", ":", "/", "/", "up">>

\* this.newWebSite_basePath = new URL(options.newWebSiteUrl).origin
newWebSite_basePath == <<"https", ":", "/", "/", "site">>

\* this.newWebSite_lcBasePath
newWebSite_lcBasePath == ToLowerCase(newWebSite_basePath)

\* this.newWebSite_urlInfos.toString(): the origin with its root path
newWebSite_urlInfos == newWebSite_basePath \o <<"/">>

\* this.newWebSite_urlInfos.protocol
newWebSite_protocol == <<"https", ":">>

\* options.requiredPrefix, defaulted by the constructor to the output origin
requiredPrefix == newWebSite_basePath

\* this.requiredPrefix2 = "//" + urlInfos.hostname
requiredPrefix2 == <<"/", "/", "site">>

\* options.rewriteThisUrls: the constructor adds the source origin, since it
\* differs from the output origin
rewriteThisUrls == <<sourceWebSiteOrigin>>

-----------------------------------------------------------------------------
(* The URL class (WHATWG): the parts of an absolute url string.            *)

\* first index >= from of a token of set ts, Len(s) + 1 when there is none
FirstOf(s, ts, from) ==
    IF \E i \in from..Len(s) : s[i] \in ts
    THEN CHOOSE i \in from..Len(s) : s[i] \in ts /\ \A j \in from..(i - 1) : s[j] \notin ts
    ELSE Len(s) + 1

\* index just after the host[:port] of an absolute url
HostEnd(u) == FirstOf(u, {"/", "?", "#"}, IndexOf(u, ":") + 3)

\* new URL(u).origin: scheme, host and port, lower-cased
UrlOrigin(u) == ToLowerCase(SubSeq(u, 1, HostEnd(u) - 1))

\* new URL(u).pathname: from the first "/" after the host up to "?" or "#"
UrlPathname(u) ==
    LET rest == SubFrom(u, HostEnd(u))
        p == SubSeq(rest, 1, FirstOf(rest, {"?", "#"}, 1) - 1)
    IN IF p = <<>> THEN <<"/">> ELSE p

\* "?query#fragment" of a reference, empty when it has none
UrlTail(u) == SubFrom(u, FirstOf(u, {"?", "#"}, 1))

\* removal of "." and ".." segments while resolving a relative reference
RECURSIVE RemoveDotSegments(_, _)
RemoveDotSegments(out, segs) ==
    IF segs = <<>> THEN out
    ELSE LET s == Head(segs)
             last == Len(segs) = 1
             popped == IF out = <<>> THEN out ELSE SubSeq(out, 1, Len(out) - 1)
         IN IF s = <<".">>
            THEN RemoveDotSegments(IF last THEN out \o << <<>> >> ELSE out, Tail(segs))
            ELSE IF s = <<".", ".">>
            THEN RemoveDotSegments(IF last THEN popped \o << <<>> >> ELSE popped, Tail(segs))
            ELSE RemoveDotSegments(out \o <<s>>, Tail(segs))

\* new URL(ref, base).toString() for a path-relative reference
UrlResolve(ref, base) ==
    LET baseSegs == Split(SubFrom(UrlPathname(base), 2), "/")
        baseDir == SubSeq(baseSegs, 1, Len(baseSegs) - 1)
        refPath == SubSeq(ref, 1, FirstOf(ref, {"?", "#"}, 1) - 1)
        segs == RemoveDotSegments(baseDir, Split(refPath, "/"))
    IN UrlOrigin(base) \o <<"/">> \o Join(segs, "/") \o UrlTail(ref)

-----------------------------------------------------------------------------
(* The url pipeline.                                                       *)

\* resolveRelativeUrl(url, baseUrl); baseUrl is given by its toString().
\* In the "//" branch new URL(url) has no base and throws; the branch is not
\* reached from cleanUpUrlAux, which handles "//" before it calls this
\* function, and is modelled as Null.
resolveRelativeUrl(u, baseUrl) ==
    IF u[1] = "/" THEN
        IF Len(u) > 1 /\ u[2] = "/"
        THEN Null
        ELSE baseUrl \o SubFrom(u, 2)
    ELSE IF u[1] = "." THEN UrlResolve(u, baseUrl)
    ELSE u

\* rewriteSourceSiteUrl(url), with the loop over options.rewriteThisUrls
RECURSIVE rewriteWith(_, _)
rewriteWith(u, prefixes) ==
    IF prefixes = <<>> THEN u
    ELSE IF StartsWith(u, Head(prefixes))
         THEN newWebSite_basePath \o SubFrom(u, Len(Head(prefixes)) + 1)
         ELSE rewriteWith(u, Tail(prefixes))

rewriteSourceSiteUrl(u) == rewriteWith(u, rewriteThisUrls)

ExcludedSchemes == {"data", "javascript", "mailto", "tel", "sms", "ftp"}

\* the last two statements of cleanUpUrlAux: the required-prefix test
requiredPrefixFilter(u) ==
    IF ~StartsWith(ToLowerCase(u), requiredPrefix) THEN Null ELSE Trim(u)

\* cleanUpUrlAux(url, isCss, currentUrl) for the url without "://";
\* groupUrl is this.currentGroup.url
cleanUpRelative(u, isCss, currentUrl, groupUrl) ==
    LET idx == IndexOf(groupUrl, "?")
        u2 == IF u[1] = "?"
              THEN (IF idx # 0 THEN SubSeq(groupUrl, 1, idx - 1) ELSE groupUrl) \o u
              ELSE u
        excluded == u[1] # "?" /\ Includes(u, ":")
                    /\ \E s \in ExcludedSchemes : StartsWith(u, <<s, ":">>)
    IN IF excluded THEN Null
       ELSE IF StartsWith(u2, <<"/", "/">>)
       THEN IF ~StartsWith(ToLowerCase(u2), requiredPrefix2) THEN Null
            ELSE requiredPrefixFilter(newWebSite_protocol \o u2)
       ELSE IF u2[1] = "/"
       THEN requiredPrefixFilter(resolveRelativeUrl(u2, newWebSite_urlInfos))
       ELSE IF isCss
       THEN requiredPrefixFilter(resolveRelativeUrl(u2, currentUrl))
       ELSE requiredPrefixFilter(resolveRelativeUrl(u2, newWebSite_urlInfos))

\* cleanUpUrlAux(url, isCss, currentUrl); null and "" are both Null, every
\* caller tests the result for falsiness only
cleanUpUrlAux(u0, isCss, currentUrl, groupUrl) ==
    IF u0 = Null THEN Null
    ELSE LET u == Trim(u0)
         IN IF u = <<>> THEN Null
            ELSE IF u[1] = "#" THEN Null
            ELSE IF ~IncludesSeq(u, <<":", "/", "/">>)
            THEN cleanUpRelative(u, isCss, currentUrl, groupUrl)
            ELSE requiredPrefixFilter(rewriteSourceSiteUrl(u))

\* _cleanUpUrl(url)
cleanUpUrl(u) == cleanUpUrlAux(u, FALSE, Null, groups[currentGroup].url)

\* cleanUpCssUrl(url, baseUrl)
cleanUpCssUrl(u, baseUrl) == cleanUpUrlAux(u, TRUE, baseUrl, groups[currentGroup].url)

\* the forbidden test of pushUrl: includes(url), or find(startsWith)
IsForbidden(u) ==
    \E i \in 1..Len(forbiddenUrls) : forbiddenUrls[i] = u \/ StartsWith(u, forbiddenUrls[i])

\* a pushUrl without the forbidden test
pushUrlStacksForbidden(st, u0) ==
    LET u == cleanUpUrl(u0)
    IN IF u0 = Null \/ u = Null THEN st
       ELSE IF Includes(st.urlDone, u) THEN st
       ELSE [urlDone |-> Append(st.urlDone, u), stack |-> Append(st.stack, u)]

\* a pushUrl without the urlDone test
pushUrlNoSeenCheck(st, u0) ==
    LET u == cleanUpUrl(u0)
    IN IF u0 = Null \/ u = Null THEN st
       ELSE IF IsForbidden(u) THEN [st EXCEPT !.urlDone = Append(st.urlDone, u)]
       ELSE [urlDone |-> Append(st.urlDone, u), stack |-> Append(st.stack, u)]

\* pushUrl(url) as a function of the state it reads and writes:
\* st.urlDone is this.urlDone, st.stack is this.currentGroup.stack
pushUrl(st, u0) ==
    LET u == cleanUpUrl(u0)
    IN IF u0 = Null \/ u = Null THEN st
       ELSE IF Includes(st.urlDone, u) THEN st
       ELSE IF IsForbidden(u) THEN [st EXCEPT !.urlDone = Append(st.urlDone, u)]
       ELSE [urlDone |-> Append(st.urlDone, u), stack |-> Append(st.stack, u)]

\* the value pushUrl(url) returns
pushUrlResult(u0) ==
    LET u == cleanUpUrl(u0) IN IF u0 = Null \/ u = Null THEN <<>> ELSE u

\* a forEach of pushUrl over the references found in a body
RECURSIVE pushAll(_, _)
pushAll(st, refs) == IF refs = <<>> THEN st ELSE pushAll(pushUrl(st, Head(refs)), Tail(refs))

\* the forEach over the urls of a stylesheet: cleanUpCssUrl, then pushUrl
RECURSIVE pushAllCss(_, _, _)
pushAllCss(st, refs, cssUrl) ==
    IF refs = <<>> THEN st
    ELSE LET cleanedUrl == cleanUpCssUrl(Head(refs), cssUrl)
         IN pushAllCss(IF cleanedUrl # Null THEN pushUrl(st, cleanedUrl) ELSE st, Tail(refs), cssUrl)

gExtensionForResourceType ==
    { <<".", "css">>, <<".", "js">>, <<".", "jpg">>, <<".", "png">>, <<".", "jpeg">>,
      <<".", "gif">>, <<".", "woff">>, <<".", "woff2">>, <<".", "ttf">>, <<".", "txt">>,
      <<".", "avif">> }

\* isResource(u)
isResource(u) ==
    LET p == UrlPathname(u)
        idx == LastIndexOf(p, ".")
    IN IF idx = 0 THEN FALSE ELSE SubFrom(p, idx) \in gExtensionForResourceType

-----------------------------------------------------------------------------
(* The mirror cache and the relocatable links.  A file path is given from  *)
(* the directory the mirror of the site is written to.                     *)

indexHtml == <<"index", ".", "html">>

\* calKey(url): the pathname of the file: url made of the url
calKey(u) == UrlPathname(u)

\* path.join(rootDir, key): runs of "/" are made one "/"
RECURSIVE pathJoin(_)
pathJoin(p) ==
    IF Len(p) < 2 THEN p
    ELSE IF p[1] = "/" /\ p[2] = "/" THEN pathJoin(Tail(p))
    ELSE <<p[1]>> \o pathJoin(Tail(p))

\* path.extname(fp): from the last "." of the last segment, "" when there
\* is none or when it is the first character of the segment
extname(fp) ==
    LET base == SubFrom(fp, LastIndexOf(fp, "/") + 1)
        idx == LastIndexOf(base, ".")
    IN IF idx <= 1 THEN <<>> ELSE SubFrom(base, idx)

\* calcFilePath(url)
calcFilePath(u) ==
    LET fp == pathJoin(calKey(u))
    IN IF EndsWith(fp, <<"/">>) THEN fp \o indexHtml
       ELSE IF extname(fp) = <<>> THEN fp \o <<"/">> \o indexHtml
       ELSE fp

\* s.substring(0, s.indexOf(t)) when t occurs in s, else s
CutAt(s, t) == IF IndexOf(s, t) # 0 THEN SubSeq(s, 1, IndexOf(s, t) - 1) ELSE s

\* n times "../" before a path
RECURSIVE GoBack(_, _)
GoBack(n, p) == IF n <= 0 THEN p ELSE GoBack(n - 1, <<".", ".", "/">> \o p)

\* the number of "../" urlTool_buildFileSystemUrl puts before a link, from
\* currentUrl, the url of the current group without the origin and its "/"
backCount(currentUrl) ==
    Len(Split(currentUrl, "/")) - (IF EndsWith(currentUrl, <<"/">>) THEN 1 ELSE 0)

\* urlTool_buildFileSystemUrl(url), with requireRelocatableUrl set (the
\* default); groupUrl is this.currentGroup.url
urlTool_buildFileSystemUrl(u0, groupUrl) ==
    LET u1 == CutAt(CutAt(u0, "?"), "#")
        lastSlash == LastIndexOf(u1, "/")
        lastSegment == IF lastSlash = 0 THEN u1 ELSE SubFrom(u1, lastSlash + 1)
        u2 == IF EndsWith(u1, <<"/">>) THEN u1 \o indexHtml
              ELSE IF ~Includes(lastSegment, ".") THEN u1 \o <<"/">> \o indexHtml
              ELSE u1
        u3 == SubFrom(u2, Len(newWebSite_lcBasePath) + 2)
        currentUrl == SubFrom(groupUrl, Len(newWebSite_lcBasePath) + 2)
    IN IF StartsWith(u2, newWebSite_lcBasePath)
       THEN IF currentUrl = <<>> THEN u3
            ELSE IF u3 = currentUrl THEN u3
            ELSE GoBack(backCount(currentUrl), u3)
       ELSE u2

\* transformFoundUrl(url, enableRelocatable): no transformUrl hook is
\* configured, requireRelocatableUrl has its default true
transformFoundUrl(u, enableRelocatable, groupUrl) ==
    IF enableRelocatable THEN urlTool_buildFileSystemUrl(u, groupUrl) ELSE u

\* the segments of a file path
PathSegments(fp) == Split(SubFrom(fp, 2), "/")

\* what a browser makes of a relative link found in a file of directory
\* dir: ".." leaves a directory, a name enters one; a link that leaves the
\* mirror, or is no relative link, designates no file of the mirror
RECURSIVE FollowLink(_, _)
FollowLink(dir, segs) ==
    IF segs = <<>> THEN dir
    ELSE IF Head(segs) = <<".", ".">>
         THEN IF dir = <<>> THEN << <<"<outside>">> >>
              ELSE FollowLink(SubSeq(dir, 1, Len(dir) - 1), Tail(segs))
         ELSE FollowLink(dir \o <<Head(segs)>>, Tail(segs))

\* the file a link designates when it stands in the mirror file of page
LinkTarget(page, link) ==
    LET file == PathSegments(calcFilePath(page))
    IN IF IncludesSeq(link, <<":", "/", "/">>) THEN << <<"<absolute>">> >>
       ELSE FollowLink(SubSeq(file, 1, Len(file) - 1), Split(link, "/"))

-----------------------------------------------------------------------------
(* Bounds of the model and the inputs the environment draws from.          *)

\* most references one fetched body (HTML or CSS) holds
MaxLinks == 2

\* most entries of options.forbiddenUrls (the constructor leaves two)
MaxForbidden == 3

\* most retries an onInvalidResponseCodeFound hook asks for on one url
MaxHookRetries == 4

\* the references a body or a Location header may hold
RawRefs ==
    { <<"/", "a">>,
      <<"/", "s", ".", "css">>,
      <<"/", "t", ".", "png">>,
      <<"/", "wp", "/", "x">>,
      <<"#", "top">> }

\* the bodies: every sequence of at most MaxLinks references
Bodies == UNION {[1..n -> RawRefs] : n \in 0..MaxLinks}

\* the entry points start() is called with; Null is start() without argument
EntryPoints == {Null, <<"https", ":", "/", "/", "site", "/", "a">>}

\* the urls forbidUrlFrom is called with while the crawl runs
ForbidInputs == { <<"/", "a">> }

\* options.forbiddenUrls as given to the constructor
forbiddenUrlsOption == << <<"/", "wp">> >>

\* the statuses a fetch answers
Statuses == {200, 204, 301, 404}

\* the entry points of a start() call made while a first call runs
EntryPointsAgain == {Null}

\* most calls of start() on one crawler
MaxStartCalls == 2

\* the pages whose document the rewriter is given
RewriterPages ==
    { newWebSite_basePath \o p : p \in
        { <<>>,
          <<"/">>,
          <<"/", "a">>,
          <<"/", "a", "/">>,
          <<"/", "a", "/", "b">>,
          <<"/", "a", "/", "b", "/">>,
          <<"/", "a", "/", "b", ".", "html">>,
          <<"/", "a", "?", "q">>,
          <<"/", "a", "?", "r", "/", "x">> } }

\* the values of the href and src attributes of such a document
RewriterRefs ==
    { <<"/", "t", ".", "png">>,
      <<"/", "a", "/", "b", ".", "html">>,
      <<"/", "a", "/", "b", "/">>,
      <<"/", "c", "/", "d">>,
      <<"/", "c", "?", "v">>,
      <<"about", ".", "html">>,
      <<".", "/", "x", ".", "png">>,
      <<"#", "top">>,
      <<"/", "wp", "/", "x">>,
      <<"https", ":", "/", "/", "up", "/", "bar">>,
      <<"https", ":", "/", "/", "site", ".", "evil", "/", "x">>,
      <<"/", "/", "site", ".", "evil", "/", "x">>,
      <<"https", ":", "/", "/", "up", ".", "evil", "/", "x">>,
      <<"https", ":", "/", "/", "other", "/", "x">> }

\* the values of the srcset attributes of such a document
RewriterSrcsets ==
    { <<"/", "t", ".", "png", " ", "1x", ",", " ", "#", "top", " ", "2x">>,
      <<"/", "t", ".", "png", " ", "1x", ",", "/", "u", ".", "png">>,
      <<"https", ":", "/", "/", "other", "/", "x", ".", "png", " ", "2x">>,
      <<"/", "a", "/", "b", ".", "html", " ", "480w", ",", "/", "t", ".", "png", " ", "800w">> }

\* the references of the bodies of a site of several pages
FifoRefs ==
    { <<"/", "a">>,
      <<"/", "b">>,
      <<"/", "c">>,
      <<"/", "s", ".", "css">> }

\* the bodies of such a site
FifoBodies == UNION {[1..n -> FifoRefs] : n \in 0..MaxLinks}

\* the references of the bodies of a site whose urls share mirror files
MirrorRefs ==
    { <<"/", "a">>,
      <<"/", "a", "/">>,
      <<"/", "a", "?", "q">>,
      <<"/", "t", ".", "png">> }

\* the bodies of such a site
MirrorBodies == UNION {[1..n -> MirrorRefs] : n \in 0..MaxLinks}

\* the urls of the lists given to new UrlSortTools
SortUrls ==
    { <<"/", "a">>, <<"/", "b">>, <<"/", "c">> }

\* most urls of such a list
MaxSortUrls == 3

\* the lists given to new UrlSortTools
SortInputs == UNION {[1..n -> SortUrls] : n \in 0..MaxSortUrls}

\* the filters given to remove: the set of the urls a filter answers true for
SortFilters == SUBSET SortUrls

\* the places where the start() call is suspended at an await that lets
\* other code of the program run
Suspended == {"hasInCache", "fetch", "tick", "invalidAwait", "mkdir", "write", "hookAwait"}

-----------------------------------------------------------------------------
(* The crawler.                                                            *)

\* forbidUrlFrom(url) as a function of options.forbiddenUrls
forbidUrlFrom(list, u) ==
    LET cleanedUrl == cleanUpUrl(u)
    IN IF cleanedUrl # Null THEN Append(list, cleanedUrl) ELSE list

\* the constructor's options.forbiddenUrls.forEach(url => this.forbidUrlFrom(url)):
\* forbidUrlFrom pushes onto the array that is iterated, forEach visits the
\* entries the array had when the loop began
RECURSIVE forbidEach(_, _)
forbidEach(list, todo) ==
    IF todo = <<>> THEN list ELSE forbidEach(forbidUrlFrom(list, Head(todo)), Tail(todo))

\* the state pushUrl works on, for the group this.currentGroup refers to
PushState == [urlDone |-> urlDone, stack |-> groups[currentGroup].stack]

\* write a pushUrl state back to this.urlDone and this.currentGroup.stack
StorePush(st) ==
    /\ urlDone' = st.urlDone
    /\ groups' = [groups EXCEPT ![currentGroup].stack = st.stack]

\* no response at hand: before the first fetch of a processUrl call, and
\* once the response is of no further use to the call
NoResponse == [status |-> 0, contentType |-> "none"]

\* the options of the crawls of Spec: a writer, the two hooks that decide
\* on the course of the crawl, each configured or not; no canDownload, no
\* canIgnoreIfAlreadyCrawled, no onUrl
CrawlerOptions ==
    [writer : BOOLEAN, onInvalidResponseCodeFound : BOOLEAN,
     onPageFullyDownloaded : BOOLEAN, canDownload : {FALSE},
     canIgnoreIfAlreadyCrawled : {FALSE}, onUrl : {FALSE}]

\* the values of processUrl's local infos: not asked for, undefined, found
NoInfos == "none"

\* the crawler after construction, with options out of optionSets
CrawlerInit(optionSets) ==
    /\ urlDone = <<>>
    /\ isStarted = FALSE
    /\ groups = << [url |-> <<>>, stack |-> <<>>] >>
    /\ currentGroup = 1
    /\ groupStack = <<>>
    /\ forbiddenUrls = forbidEach(forbiddenUrlsOption, forbiddenUrlsOption)
    /\ options \in optionSets
    /\ pc = "idle"
    /\ group = 0
    /\ url = <<>>
    /\ kind = "none"
    /\ retryCount = 0
    /\ fetchRes = NoResponse
    /\ processResponse = "none"
    /\ resources = <<>>
    /\ resIdx = 1
    /\ resState = "none"
    /\ passes = 0
    /\ fetchLog = EmptyBag
    /\ hookLog = "none"
    /\ startCalls = 0
    /\ faults = {}
    /\ arg = <<>>
    /\ ret = <<>>
    /\ mirror = {}
    /\ infos = NoInfos
    /\ calls = <<>>

Init == CrawlerInit(CrawlerOptions)

\* start(entryPoint), up to the call of processStack
StartBody(entryPoint) ==
    LET entry == IF entryPoint = Null THEN newWebSite_basePath ELSE entryPoint
        newGroup == [url |-> entry, stack |-> <<>>]
    IN /\ groups' = Append(groups, newGroup)
       /\ groupStack' = Append(groupStack, Len(groups) + 1)
       /\ currentGroup' = Len(groups) + 1
       /\ startCalls' = startCalls + 1

\* start(entryPoint), called on the idle crawler: processStack sets isStarted
\* and enters its loop
Start ==
    /\ pc = "idle"
    /\ \E entryPoint \in EntryPoints : StartBody(entryPoint)
    /\ isStarted' = TRUE
    /\ pc' = "loop"
    /\ UNCHANGED <<urlDone, forbiddenUrls, options, mirror, infos, calls, group, url, kind, retryCount, fetchRes,
                   processResponse, resources, resIdx, resState, passes, fetchLog, hookLog,
                   faults, arg, ret>>

\* processStack: one turn of the while loop, into processGroup up to its
\* call of processUrl(group.url)
ProcessStackNext ==
    /\ pc = "loop"
    /\ IF groupStack = <<>>
       THEN /\ isStarted' = FALSE
            /\ pc' = "done"
            /\ UNCHANGED <<groupStack, currentGroup, group, url, kind, resources, resIdx>>
       ELSE /\ groupStack' = Tail(groupStack)
            /\ group' = Head(groupStack)
            /\ currentGroup' = Head(groupStack)
            /\ url' = groups[Head(groupStack)].url
            /\ kind' = "page"
            /\ resources' = <<>>
            /\ resIdx' = 1
            /\ pc' = "processUrl"
            /\ UNCHANGED isStarted
    /\ UNCHANGED <<urlDone, groups, forbiddenUrls, options, mirror, infos, calls, retryCount, fetchRes, processResponse,
                   resState, passes, fetchLog, hookLog, startCalls, faults, arg, ret>>

\* options.urlMapping.resolveURL(partialUrl): whether it gives a mapping
MappingResults == BOOLEAN

\* whether the crawler reads the mirror directory: processUrl calls
\* hasInCache.  The files of the other crawlers are written and never read,
\* they are not followed.
ReadsMirror == options.writer /\ options.canIgnoreIfAlreadyCrawled

\* what a hook answered, a boolean
BoolAnswer(b) == IF b THEN "true" ELSE "false"

\* one call of a hook by processUrl, with what the hook answered
HookCall(hook, answer) == [hook |-> hook, answer |-> answer]

\* processUrl, lines 515 to 527: onUrl is called when configured, then the
\* loop of the fetches is entered.  The mappings have no wakeUpServer and
\* no pauseDuration_ms is configured.
Announce(called) ==
    /\ calls' = IF options.onUrl THEN Append(called, HookCall("onUrl", "undefined")) ELSE called
    /\ retryCount' = 0
    /\ pc' = "fetch"
    /\ UNCHANGED resState

\* processUrl returns IGNORED
ReturnIgnored ==
    /\ resState' = "ignored"
    /\ pc' = "afterUrl"
    /\ retryCount' = 0

\* processUrl(url), from its call to its first await: the mapping, then
\* hasInCache when a writer and canIgnoreIfAlreadyCrawled are configured,
\* else the fetch
ProcessUrlBegin ==
    /\ pc = "processUrl"
    /\ fetchLog' = fetchLog (+) SetToBag({url})
    /\ \E mappingResult \in MappingResults :
          IF ~mappingResult
          THEN ReturnIgnored /\ calls' = <<>>
          ELSE IF ReadsMirror
          THEN /\ pc' = "hasInCache"
               /\ calls' = <<>>
               /\ retryCount' = 0
               /\ UNCHANGED resState
          ELSE Announce(<<>>)
    /\ fetchRes' = NoResponse
    /\ infos' = NoInfos
    /\ UNCHANGED <<urlDone, isStarted, currentGroup, groupStack, groups, forbiddenUrls,
                   options, mirror, group, url, kind, processResponse, resources, resIdx,
                   passes, hookLog, startCalls, faults, arg, ret>>

\* file.stat() of hasInCache succeeds on a file that was written
InMirror(filePath) == \E m \in mirror : m.file = filePath

\* a processUrl that asks canIgnoreIfAlreadyCrawled whatever hasInCache
\* answered
HasInCacheAsksAlways ==
    /\ pc = "hasInCache"
    /\ \E found \in (IF InMirror(calcFilePath(url)) THEN {TRUE} ELSE BOOLEAN) :
          /\ infos' = IF found THEN "found" ELSE "undefined"
          /\ \E answer \in BOOLEAN :
                LET called == <<HookCall("canIgnoreIfAlreadyCrawled", BoolAnswer(answer))>>
                IN IF answer
                   THEN ReturnIgnored /\ calls' = called
                   ELSE Announce(called)
    /\ UNCHANGED <<urlDone, isStarted, currentGroup, groupStack, groups, forbiddenUrls,
                   options, mirror, group, url, kind, fetchRes, processResponse, resources,
                   resIdx, passes, fetchLog, hookLog, startCalls, faults, arg, ret>>

\* hasInCache(new URL(transformedUrl)) ends (transformFoundUrl(url, false)
\* is url, no transformUrl being configured): infos when stat finds the
\* file, undefined when it throws.  A file this crawl wrote is found; one
\* it did not write is found when an earlier crawl left it.  With infos the
\* hook is asked, and IGNORED returned when it answers true.
HasInCacheReturns ==
    /\ pc = "hasInCache"
    /\ \E found \in (IF InMirror(calcFilePath(url)) THEN {TRUE} ELSE BOOLEAN) :
          IF found
          THEN /\ infos' = "found"
               /\ \E answer \in BOOLEAN :
                     LET called == <<HookCall("canIgnoreIfAlreadyCrawled", BoolAnswer(answer))>>
                     IN IF answer
                        THEN ReturnIgnored /\ calls' = called
                        ELSE Announce(called)
          ELSE /\ infos' = "undefined"
               /\ Announce(<<>>)
    /\ UNCHANGED <<urlDone, isStarted, currentGroup, groupStack, groups, forbiddenUrls,
                   options, mirror, group, url, kind, fetchRes, processResponse, resources,
                   resIdx, passes, fetchLog, hookLog, startCalls, faults, arg, ret>>

\* the rest of processUrl after a body was handled: addToCache when a writer
\* is configured (the status is 200 there), else return OK
PersistOrReturn ==
    IF options.writer
    THEN pc' = "mkdir" /\ UNCHANGED <<resState, retryCount>>
    ELSE pc' = "afterUrl" /\ resState' = "ok" /\ retryCount' = 0

\* the Content-Type headers a 200 answer carries
ContentTypes == {"text/html", "text/css", "other"}

\* the fetch answers 200 with a body out of bodies: the body is handled by
\* its Content-Type
FetchOkFrom(bodies) ==
    /\ pc = "fetch"
    /\ \E contentType \in ContentTypes, body \in bodies :
          /\ CASE contentType = "text/html" -> StorePush(pushAll(PushState, body))
                [] contentType = "text/css" -> StorePush(pushAllCss(PushState, body, url))
                [] OTHER -> UNCHANGED <<urlDone, groups>>
          /\ fetchRes' = [status |-> 200, contentType |-> contentType]
    /\ PersistOrReturn
    /\ UNCHANGED <<isStarted, currentGroup, groupStack, forbiddenUrls, options, mirror, infos, calls, group, url,
                   kind, processResponse, resources, resIdx, passes, fetchLog,
                   hookLog, startCalls, faults, arg, ret>>

\* the test `res.status >= 300 && res.status < 400`
IsRedirectStatus(status) == status >= 300 /\ status < 400

\* a 3xx branch that returns REDIRECTED without a look at the Location header
FetchRedirectDropsLocation ==
    /\ pc = "fetch"
    /\ \E status \in Statuses, location \in RawRefs \cup {Null} :
          /\ IsRedirectStatus(status)
          /\ arg' = location
          /\ fetchRes' = [status |-> status, contentType |-> "none"]
    /\ resState' = "redirected"
    /\ retryCount' = 0
    /\ pc' = "afterUrl"
    /\ UNCHANGED <<urlDone, groups, isStarted, currentGroup, groupStack, forbiddenUrls,
                   options, mirror, infos, calls, group, url, kind, processResponse, resources, resIdx, passes,
                   fetchLog, hookLog, startCalls, faults, ret>>

\* the fetch answers 3xx: the Location header (arg), when present, is pushed;
\* REDIRECTED is returned
FetchRedirect ==
    /\ pc = "fetch"
    /\ \E status \in Statuses, location \in RawRefs \cup {Null} :
          /\ IsRedirectStatus(status)
          /\ arg' = location
          /\ fetchRes' = [status |-> status, contentType |-> "none"]
          /\ StorePush(pushUrl(PushState, location))
    /\ resState' = "redirected"
    /\ retryCount' = 0
    /\ pc' = "afterUrl"
    /\ UNCHANGED <<isStarted, currentGroup, groupStack, forbiddenUrls, options, mirror, infos, calls, group, url,
                   kind, processResponse, resources, resIdx, passes, fetchLog,
                   hookLog, startCalls, faults, ret>>

\* a retry that forgets to count
NextRetryCountStuck(rc) == rc

\* the fetch answers 200
FetchOk == FetchOkFrom(Bodies)

\* retryCount++
NextRetryCount(rc) == rc + 1

\* a default policy that allows one retry more
DefaultCanRetryFour(rc) == rc < 4

\* the default policy's test retryCount<3
DefaultCanRetry(rc) == rc < 3

\* the tests `res.status !== 200` and not `res.status >= 300 && res.status < 400`
IsInvalidStatus(status) == status # 200 /\ ~IsRedirectStatus(status)

\* the end of a failed attempt, canContinue being decided:
\* `if (!canContinue) return ERROR; retryCount++; continue`
CanContinue(canContinue) ==
    /\ IF canContinue
       THEN /\ retryCount' = NextRetryCount(retryCount)
            /\ pc' = "fetch"
            /\ UNCHANGED resState
       ELSE /\ resState' = "error"
            /\ pc' = "afterUrl"
            /\ retryCount' = 0
    /\ fetchRes' = NoResponse

\* what onInvalidResponseCodeFound may return: a boolean or a Promise
InvalidHookAnswers == {"true", "false", "promise"}

\* a processUrl that applies the default policy whether or not there is a
\* hook
FetchInvalidIgnoresHook ==
    /\ pc = "fetch"
    /\ \E status \in Statuses :
          /\ IsInvalidStatus(status)
          /\ IF DefaultCanRetry(retryCount)
             THEN /\ pc' = "tick"
                  /\ fetchRes' = [status |-> status, contentType |-> "none"]
                  /\ UNCHANGED <<retryCount, resState>>
             ELSE CanContinue(FALSE)
    /\ UNCHANGED <<urlDone, isStarted, currentGroup, groupStack, groups, forbiddenUrls,
                   options, mirror, infos, calls, group, url, kind, processResponse, resources, resIdx,
                   passes, fetchLog, hookLog, startCalls, faults, arg, ret>>

\* the fetch answers a status that is neither 200 nor 3xx: the hook decides
\* when there is one (it asks at most MaxHookRetries times for a retry),
\* else the default policy
FetchInvalid ==
    /\ pc = "fetch"
    /\ \E status \in Statuses :
          /\ IsInvalidStatus(status)
          /\ IF options.onInvalidResponseCodeFound
             THEN \E what \in InvalidHookAnswers :
                     IF what = "promise"
                     THEN /\ pc' = "invalidAwait"
                          /\ fetchRes' = [status |-> status, contentType |-> "none"]
                          /\ UNCHANGED <<retryCount, resState>>
                     ELSE /\ what = "true" => retryCount < MaxHookRetries
                          /\ CanContinue(what = "true")
             ELSE IF DefaultCanRetry(retryCount)
                  THEN /\ pc' = "tick"
                       /\ fetchRes' = [status |-> status, contentType |-> "none"]
                       /\ UNCHANGED <<retryCount, resState>>
                  ELSE CanContinue(FALSE)
    /\ UNCHANGED <<urlDone, isStarted, currentGroup, groupStack, groups, forbiddenUrls,
                   options, mirror, infos, calls, group, url, kind, processResponse, resources, resIdx,
                   passes, fetchLog, hookLog, startCalls, faults, arg, ret>>

\* `what = await what` ends: the Promise of onInvalidResponseCodeFound
\* resolves to a boolean, which is canContinue
InvalidHookResolves ==
    /\ pc = "invalidAwait"
    /\ \E value \in BOOLEAN :
          /\ value => retryCount < MaxHookRetries
          /\ CanContinue(value)
    /\ UNCHANGED <<urlDone, isStarted, currentGroup, groupStack, groups, forbiddenUrls,
                   options, mirror, infos, calls, group, url, kind, processResponse, resources, resIdx,
                   passes, fetchLog, hookLog, startCalls, faults, arg, ret>>

\* the fetch rejects: nothing in processUrl, processGroup, processStack or
\* start catches it, the start() call ends with the error
FetchRejects ==
    /\ pc = "fetch"
    /\ pc' = "thrown"
    /\ faults' = faults \cup {"fetch"}
    /\ UNCHANGED <<urlDone, isStarted, currentGroup, groupStack, groups, forbiddenUrls,
                   options, mirror, infos, calls, group, url, kind, retryCount, fetchRes, processResponse, resources,
                   resIdx, resState, passes, fetchLog, hookLog, startCalls, arg, ret>>

\* the argument of tick: 1000 * retryCount
tickDelay == 1000 * retryCount

\* await tick(1000 * retryCount) ends: canContinue = true
TickReturns ==
    /\ pc = "tick"
    /\ CanContinue(TRUE)
    /\ UNCHANGED <<urlDone, isStarted, currentGroup, groupStack, groups, forbiddenUrls,
                   options, mirror, infos, calls, group, url, kind, processResponse, resources, resIdx,
                   passes, fetchLog, hookLog, startCalls, faults, arg, ret>>

\* addToCache: await fs.mkdir(...) succeeds, the write is started
MkdirReturns ==
    /\ pc = "mkdir"
    /\ pc' = "write"
    /\ fetchRes' = NoResponse
    /\ UNCHANGED <<urlDone, isStarted, currentGroup, groupStack, groups, forbiddenUrls,
                   options, mirror, infos, calls, group, url, kind, retryCount, processResponse, resources,
                   resIdx, resState, passes, fetchLog, hookLog, startCalls, faults, arg, ret>>

\* addToCache: await fs.mkdir(...) rejects; the call stands before the try
\* block, the error leaves addToCache, processUrl and start
MkdirRejects ==
    /\ pc = "mkdir"
    /\ pc' = "thrown"
    /\ faults' = faults \cup {"mkdir"}
    /\ UNCHANGED <<urlDone, isStarted, currentGroup, groupStack, groups, forbiddenUrls,
                   options, mirror, infos, calls, group, url, kind, retryCount, fetchRes, processResponse, resources,
                   resIdx, resState, passes, fetchLog, hookLog, startCalls, arg, ret>>

\* addToCache: await file.write(response) ends, the file calcFilePath(url)
\* is in the mirror; a rejection is caught and logged by the try block,
\* processUrl returns OK either way
WriteReturns ==
    /\ pc = "write"
    /\ \E written \in BOOLEAN :
          mirror' = IF written /\ ReadsMirror
                    THEN mirror \cup {[file |-> calcFilePath(url), url |-> url]}
                    ELSE mirror
    /\ resState' = "ok"
    /\ retryCount' = 0
    /\ pc' = "afterUrl"
    /\ UNCHANGED <<fetchRes, urlDone, isStarted, currentGroup, groupStack, groups, forbiddenUrls,
                   options, infos, calls, group, url, kind, processResponse, resources, resIdx,
                   passes, fetchLog, hookLog, startCalls, faults, arg, ret>>

\* groups made in the reverse order
NewGroupsReversed(urls) ==
    [i \in 1..Len(urls) |-> [url |-> urls[Len(urls) + 1 - i], stack |-> <<>>]]

\* the groups processGroup makes of the page-like urls: {url}, no stack
NewGroups(urls) == [i \in 1..Len(urls) |-> [url |-> urls[i], stack |-> <<>>]]

IsNotResource(u) == ~isResource(u)

\* the urls the canDownload hook of the modelled program refuses
CanDownloadDenied ==
    { <<"https", ":", "/", "/", "site", "/", "t", ".", "png">>,
      <<"https", ":", "/", "/", "site", "/", "wp", "/", "x">> }

\* options.canDownload(url, isResource) of the modelled program
canDownload(u, isRes) == u \notin CanDownloadDenied

\* the urls the forEach over group.stack puts in isResource
KeptResource(u) == isResource(u) /\ (options.canDownload => canDownload(u, TRUE))

\* the urls the forEach over group.stack puts in isNotResource
KeptPage(u) == IsNotResource(u) /\ (options.canDownload => canDownload(u, FALSE))

\* processGroup after processUrl(group.url) returned: the stack is split,
\* the pages are queued as groups, the resources start the drain.  No
\* sortPagesToDownload is configured.
AfterPageUrl ==
    /\ pc = "afterUrl"
    /\ kind = "page"
    /\ processResponse' = resState
    /\ LET stack == groups[group].stack
           isResourceList == SelectSeq(stack, KeptResource)
           isNotResourceList == SelectSeq(stack, KeptPage)
       IN /\ groups' = [groups EXCEPT ![group].stack = <<>>] \o NewGroups(isNotResourceList)
          /\ groupStack' = groupStack \o
                 [i \in 1..Len(isNotResourceList) |-> Len(groups) + i]
          /\ resources' = isResourceList
          /\ resIdx' = 1
          /\ passes' = IF isResourceList # <<>> THEN 1 ELSE 0
    /\ resState' = "none"
    /\ fetchRes' = NoResponse
    /\ arg' = Null
    /\ infos' = NoInfos
    /\ calls' = <<>>
    /\ pc' = "drain"
    /\ UNCHANGED <<urlDone, isStarted, currentGroup, forbiddenUrls, options, mirror, group, url,
                   kind, retryCount, fetchLog, hookLog, startCalls, faults, ret>>

\* processGroup after processUrl(resUrl) returned in the drain: i++
\* (onResourceDownloaded is not configured)
AfterResourceUrl ==
    /\ pc = "afterUrl"
    /\ kind = "res"
    /\ resIdx' = resIdx + 1
    /\ resState' = "none"
    /\ fetchRes' = NoResponse
    /\ arg' = Null
    /\ infos' = NoInfos
    /\ calls' = <<>>
    /\ pc' = "drain"
    /\ UNCHANGED <<urlDone, isStarted, currentGroup, groupStack, groups, forbiddenUrls,
                   options, mirror, group, url, kind, retryCount, processResponse, resources,
                   passes, fetchLog, hookLog, startCalls, faults, ret>>

\* a drain that takes one pass only
StackHasMoreNever(stack) == FALSE

\* the test `if (group.stack)` that ends a pass of the drain
StackHasMore(stack) == stack # <<>>

\* the drain of processGroup: the next resource of the pass, or the next
\* pass over what was pushed on group.stack meanwhile, or the end
Drain ==
    /\ pc = "drain"
    /\ IF resIdx <= Len(resources)
       THEN /\ url' = resources[resIdx]
            /\ kind' = "res"
            /\ pc' = "processUrl"
            /\ UNCHANGED <<groups, resources, resIdx, passes>>
       ELSE IF StackHasMore(groups[group].stack)
       THEN /\ resources' = groups[group].stack
            /\ groups' = [groups EXCEPT ![group].stack = <<>>]
            /\ resIdx' = 1
            /\ passes' = passes + 1
            /\ UNCHANGED <<url, kind, pc>>
       ELSE /\ pc' = "pageDone"
            /\ UNCHANGED <<groups, resources, resIdx, passes, url, kind>>
    /\ UNCHANGED <<urlDone, isStarted, currentGroup, groupStack, forbiddenUrls, options, mirror, infos, calls,
                   group, retryCount, fetchRes, processResponse, resState, fetchLog, hookLog,
                   startCalls, faults, arg, ret>>

\* what onPageFullyDownloaded may return: nothing, a boolean or a Promise
HookAnswers == {"undefined", "true", "false", "promise"}

\* the test `res===false` on what the hook returned
ResIsFalse(res) == res = "false"

\* processStack after processGroup returned `result`
ProcessGroupReturns(result) ==
    /\ processResponse' = "none"
    /\ IF result
       THEN pc' = "loop" /\ UNCHANGED isStarted
       ELSE pc' = "done" /\ isStarted' = FALSE

\* the end of processGroup: onPageFullyDownloaded, when configured
PageDone ==
    /\ pc = "pageDone"
    /\ IF options.onPageFullyDownloaded
       THEN \E res \in HookAnswers :
               IF res = "promise"
               THEN /\ pc' = "hookAwait"
                    /\ hookLog' = "none"
                    /\ UNCHANGED <<isStarted, processResponse>>
               ELSE /\ hookLog' = IF res = "false" THEN "stop" ELSE "none"
                    /\ ProcessGroupReturns(~ResIsFalse(res))
       ELSE /\ ProcessGroupReturns(TRUE)
            /\ UNCHANGED hookLog
    /\ UNCHANGED <<urlDone, currentGroup, groupStack, groups, forbiddenUrls, options, mirror, infos, calls,
                   group, url, kind, retryCount, fetchRes, resources, resIdx,
                   resState, passes, fetchLog, startCalls, faults, arg, ret>>

\* `await res` ends: the Promise of the hook resolves to a boolean; res is
\* still the Promise when `res===false` is tested
HookResolves ==
    /\ pc = "hookAwait"
    /\ \E value \in BOOLEAN :
          hookLog' = IF value THEN "none" ELSE "stop"
    /\ ProcessGroupReturns(~ResIsFalse("promise"))
    /\ UNCHANGED <<urlDone, currentGroup, groupStack, groups, forbiddenUrls, options, mirror, infos, calls,
                   group, url, kind, retryCount, fetchRes, resources, resIdx,
                   resState, passes, fetchLog, startCalls, faults, arg, ret>>

\* forbidUrlFrom(url), called by other code of the program (a hook, a
\* timer) while the start() call is suspended
ForbidUrlFrom ==
    /\ pc \in Suspended
    /\ Len(forbiddenUrls) < MaxForbidden
    /\ \E u \in ForbidInputs : forbiddenUrls' = forbidUrlFrom(forbiddenUrls, u)
    /\ UNCHANGED <<urlDone, isStarted, currentGroup, groupStack, groups, options, mirror, infos, calls, pc,
                   group, url, kind, retryCount, fetchRes, processResponse, resources, resIdx,
                   resState, passes, fetchLog, hookLog, startCalls, faults, arg, ret>>

\* start(entryPoint), called by other code of the program while a first
\* call is suspended: the group is pushed and made the current one, then
\* processStack returns at once since isStarted is set
StartAgain ==
    /\ pc \in Suspended
    /\ isStarted
    /\ startCalls < MaxStartCalls
    /\ \E entryPoint \in EntryPointsAgain : StartBody(entryPoint)
    /\ UNCHANGED <<urlDone, isStarted, forbiddenUrls, options, mirror, infos, calls, pc, group, url, kind,
                   retryCount, fetchRes, processResponse, resources, resIdx, resState, passes,
                   fetchLog, hookLog, faults, arg, ret>>

\* the crawler while the document of a page is rewritten: start(page) was
\* called, the group of the page was taken from the queue, the fetch of the
\* page answered 200 with an HTML body, an element holding arg is met
RewriterInit ==
    /\ urlDone = <<>>
    /\ isStarted = TRUE
    /\ \E page \in RewriterPages :
          /\ groups = << [url |-> <<>>, stack |-> <<>>], [url |-> page, stack |-> <<>>] >>
          /\ url = page
          /\ fetchLog = SetToBag({page})
    /\ currentGroup = 2
    /\ groupStack = <<>>
    /\ forbiddenUrls = forbidEach(forbiddenUrlsOption, forbiddenUrlsOption)
    /\ options \in [writer : {TRUE}, onInvalidResponseCodeFound : {FALSE},
                    onPageFullyDownloaded : {FALSE}, canDownload : {FALSE},
                    canIgnoreIfAlreadyCrawled : {FALSE}, onUrl : {FALSE}]
    /\ pc = "processHtml"
    /\ group = 2
    /\ kind = "page"
    /\ retryCount = 0
    /\ fetchRes = [status |-> 200, contentType |-> "text/html"]
    /\ processResponse = "none"
    /\ resources = <<>>
    /\ resIdx = 1
    /\ resState = "none"
    /\ passes = 0
    /\ hookLog = "none"
    /\ startCalls = 1
    /\ faults = {}
    /\ arg \in RewriterRefs \cup RewriterSrcsets
    /\ ret = [url |-> Null, link |-> Null]
    /\ mirror = {}
    /\ infos = NoInfos
    /\ calls = <<>>

\* the element handler of the rewriter for href and src: the url is pushed,
\* and when it is admitted the attribute is set to transformFoundUrl(url)
RewriteElement ==
    /\ pc = "processHtml"
    /\ arg \in RewriterRefs
    /\ LET pushed == pushUrlResult(arg)
       IN /\ StorePush(pushUrl(PushState, arg))
          /\ ret' = [url |-> pushed,
                     link |-> IF pushed # Null
                              THEN transformFoundUrl(pushed, TRUE, groups[currentGroup].url)
                              ELSE arg]
    /\ pc' = "rewritten"
    /\ UNCHANGED <<isStarted, currentGroup, groupStack, forbiddenUrls, options, mirror, infos, calls, group, url,
                   kind, retryCount, fetchRes, processResponse, resources, resIdx, resState, passes,
                   fetchLog, hookLog, startCalls, faults, arg>>

\* the forEach of the srcset handler over the parts of the attribute:
\* acc.st is the state pushUrl works on, acc.newSrcset the new value so
\* far, acc.entries what became of each part that was kept
RECURSIVE rewriteSrcsetParts(_, _, _)
rewriteSrcsetParts(acc, parts, groupUrl) ==
    IF parts = <<>> THEN acc
    ELSE LET p == Trim(Head(parts))
             idx == IndexOf(p, " ")
             url0 == SubSeq(p, 1, idx - 1)
             size == SubFrom(p, idx + 1)
             newUrl == pushUrlResult(url0)
             url1 == IF url0 # <<>> THEN newUrl ELSE url0
             url2 == transformFoundUrl(url1, TRUE, groupUrl)
         IN IF idx = 0 THEN rewriteSrcsetParts(acc, Tail(parts), groupUrl)
            ELSE rewriteSrcsetParts(
                    [st |-> pushUrl(acc.st, url0),
                     newSrcset |-> acc.newSrcset \o <<",">> \o url2 \o <<" ">> \o size,
                     entries |-> Append(acc.entries,
                                        [raw |-> url0, pushed |-> newUrl, written |-> url2])],
                    Tail(parts), groupUrl)

\* the element handler of the rewriter for the srcset of an img: each part
\* "url size" is pushed and written anew, newSrcset.substring(1) is set
RewriteSrcset ==
    /\ pc = "processHtml"
    /\ arg \in RewriterSrcsets
    /\ LET done == rewriteSrcsetParts(
                       [st |-> PushState, newSrcset |-> <<>>, entries |-> <<>>],
                       Split(arg, ","), groups[currentGroup].url)
       IN /\ StorePush(done.st)
          /\ ret' = [url |-> Null, link |-> SubFrom(done.newSrcset, 2),
                     entries |-> done.entries]
    /\ pc' = "rewrittenSrcset"
    /\ UNCHANGED <<isStarted, currentGroup, groupStack, forbiddenUrls, options, mirror, infos, calls, group, url,
                   kind, retryCount, fetchRes, processResponse, resources, resIdx, resState, passes,
                   fetchLog, hookLog, startCalls, faults, arg>>

\* the rewriter meets the next element of the document; a document is
\* followed until MaxLinks urls were admitted
NextElement ==
    /\ pc \in {"rewritten", "rewrittenSrcset"}
    /\ Len(urlDone) < MaxLinks
    /\ arg' \in RewriterRefs \cup RewriterSrcsets
    /\ ret' = [url |-> Null, link |-> Null]
    /\ pc' = "processHtml"
    /\ UNCHANGED <<urlDone, isStarted, currentGroup, groupStack, groups, forbiddenUrls,
                   options, mirror, infos, calls, group, url, kind, retryCount, fetchRes, processResponse,
                   resources, resIdx, resState, passes, fetchLog, hookLog, startCalls,
                   faults>>

\* the steps of the start() call
CrawlerStep ==
    \/ ProcessStackNext
    \/ ProcessUrlBegin
    \/ FetchOk
    \/ FetchRedirect
    \/ FetchInvalid
    \/ InvalidHookResolves
    \/ TickReturns
    \/ MkdirReturns
    \/ WriteReturns
    \/ AfterPageUrl
    \/ AfterResourceUrl
    \/ Drain
    \/ PageDone
    \/ HookResolves

Next ==
    \/ Start
    \/ CrawlerStep
    \/ FetchRejects
    \/ MkdirRejects
    \/ ForbidUrlFrom

\* one start() call on a fresh crawler
Spec == Init /\ [][Next]_vars

\* the steps of a start() call of a crawler without onInvalidResponseCodeFound
DefaultPolicyStep ==
    \/ ProcessStackNext
    \/ ProcessUrlBegin
    \/ FetchOk
    \/ FetchRedirect
    \/ FetchInvalid
    \/ TickReturns
    \/ MkdirReturns
    \/ WriteReturns
    \/ AfterPageUrl
    \/ AfterResourceUrl
    \/ Drain
    \/ PageDone
    \/ HookResolves

\* the options of a crawler that writes a mirror and has no
\* onInvalidResponseCodeFound hook
DefaultPolicyOptions ==
    [writer : {TRUE}, onInvalidResponseCodeFound : {FALSE},
     onPageFullyDownloaded : BOOLEAN, canDownload : {FALSE},
     canIgnoreIfAlreadyCrawled : {FALSE}, onUrl : {FALSE}]

DefaultPolicyInit == CrawlerInit(DefaultPolicyOptions)

DefaultPolicyNext ==
    \/ Start
    \/ DefaultPolicyStep
    \/ FetchRejects
    \/ MkdirRejects
    \/ ForbidUrlFrom

\* one start() call on a crawler without onInvalidResponseCodeFound hook, the
\* steps of which are taken as long as one is enabled: the event loop resumes
\* the call whenever what it awaits has settled
FairSpec == DefaultPolicyInit /\ [][DefaultPolicyNext]_vars /\ WF_vars(DefaultPolicyStep)

\* the crawler when other code of the program calls start() again while
\* the first call is suspended
ReentrantInit ==
    /\ Init
    /\ options.writer /\ options.onPageFullyDownloaded
    /\ ~options.onInvalidResponseCodeFound

ReentrantNext ==
    \/ Start
    \/ StartAgain
    \/ DefaultPolicyStep
    \/ FetchRejects
    \/ MkdirRejects

ReentrantSpec == ReentrantInit /\ [][ReentrantNext]_vars

\* the options of the crawls of FilterSpec: a canDownload hook, a writer
\* and an onPageFullyDownloaded hook are configured
FilterOptions ==
    [writer : {TRUE}, onInvalidResponseCodeFound : BOOLEAN,
     onPageFullyDownloaded : {TRUE}, canDownload : {TRUE},
     canIgnoreIfAlreadyCrawled : {FALSE}, onUrl : {FALSE}]

FilterInit == CrawlerInit(FilterOptions)

\* one start() call on a fresh crawler that has a canDownload hook
FilterSpec == FilterInit /\ [][Next]_vars

\* no writer, no hook
PlainOptions ==
    [writer : {FALSE}, onInvalidResponseCodeFound : {FALSE},
     onPageFullyDownloaded : {FALSE}, canDownload : {FALSE},
     canIgnoreIfAlreadyCrawled : {FALSE}, onUrl : {FALSE}]

FifoInit == CrawlerInit(PlainOptions)

\* the fetch of a url of a site of several pages answers 200
FifoFetchOk == FetchOkFrom(FifoBodies)

\* the steps of a crawl in which every fetch answers 200
FifoNext ==
    \/ Start
    \/ ProcessStackNext
    \/ ProcessUrlBegin
    \/ FifoFetchOk
    \/ AfterPageUrl
    \/ AfterResourceUrl
    \/ Drain
    \/ PageDone

\* one start() call on a site of several pages, every fetch answering 200
FifoSpec == FifoInit /\ [][FifoNext]_vars

\* the rewriter on one element of the document of a page
-----------------------------------------------------------------------------
(* UrlSortTools: the object a sortPagesToDownload hook is given.           *)

\* the code unit strings are compared by, for the tokens of SortUrls
CodeUnit(t) == CASE t = "/" -> 47 [] t = "a" -> 97 [] t = "b" -> 98 [] t = "c" -> 99 [] OTHER -> 0

\* u sorts before v or is v: the order of Array.prototype.sort() without a
\* compare function
RECURSIVE SortsBeforeOrIs(_, _)
SortsBeforeOrIs(u, v) ==
    IF u = <<>> THEN TRUE
    ELSE IF v = <<>> THEN FALSE
    ELSE IF CodeUnit(Head(u)) # CodeUnit(Head(v)) THEN CodeUnit(Head(u)) < CodeUnit(Head(v))
    ELSE SortsBeforeOrIs(Tail(u), Tail(v))

\* x put at its place in the sorted list
RECURSIVE InsertSorted(_, _)
InsertSorted(sorted, x) ==
    IF sorted = <<>> THEN <<x>>
    ELSE IF SortsBeforeOrIs(x, Head(sorted)) THEN <<x>> \o sorted
    ELSE <<Head(sorted)>> \o InsertSorted(Tail(sorted), x)

\* list.sort()
RECURSIVE ArraySort(_)
ArraySort(list) ==
    IF list = <<>> THEN <<>>
    ELSE InsertSorted(ArraySort(SubSeq(list, 1, Len(list) - 1)), list[Len(list)])

\* new UrlSortTools(allUrls): removed is undefined
NewUrlSortTools(allUrls) == [allUrl |-> allUrls, removed |-> <<>>, hasRemoved |-> FALSE]

\* a hook holds a new UrlSortTools(arg)
SortInit ==
    /\ urlDone = <<>>
    /\ isStarted = TRUE
    /\ groups = << [url |-> <<>>, stack |-> <<>>], [url |-> newWebSite_basePath, stack |-> <<>>] >>
    /\ currentGroup = 2
    /\ groupStack = <<>>
    /\ forbiddenUrls = forbidEach(forbiddenUrlsOption, forbiddenUrlsOption)
    /\ options \in PlainOptions
    /\ pc = "sortPagesToDownload"
    /\ group = 2
    /\ url = newWebSite_basePath
    /\ kind = "page"
    /\ retryCount = 0
    /\ fetchRes = NoResponse
    /\ processResponse = "ok"
    /\ resources = <<>>
    /\ resIdx = 1
    /\ resState = "ok"
    /\ passes = 0
    /\ fetchLog = SetToBag({newWebSite_basePath})
    /\ hookLog = "none"
    /\ startCalls = 1
    /\ faults = {}
    /\ arg \in SortInputs
    /\ ret = NewUrlSortTools(arg)
    /\ mirror = {}
    /\ infos = NoInfos
    /\ calls = <<>>

\* a method of UrlSortTools leaves the crawler alone
SortToolsOnly ==
    /\ pc = "sortPagesToDownload"
    /\ UNCHANGED <<urlDone, isStarted, currentGroup, groupStack, groups, forbiddenUrls,
                   options, pc, group, url, kind, retryCount, fetchRes, processResponse,
                   resources, resIdx, resState, passes, fetchLog, hookLog, startCalls,
                   faults, arg, mirror, infos, calls>>

\* remove(filter): this.removed and this.allUrl are assigned anew
remove(tools, filter) ==
    [allUrl |-> SelectSeq(tools.allUrl, LAMBDA u : u \notin filter),
     removed |-> SelectSeq(tools.allUrl, LAMBDA u : u \in filter),
     hasRemoved |-> TRUE]

Remove ==
    /\ SortToolsOnly
    /\ \E filter \in SortFilters : ret' = remove(ret, filter)

\* sortAsc()
SortAsc ==
    /\ SortToolsOnly
    /\ ret' = [ret EXCEPT !.allUrl = ArraySort(ret.allUrl)]

\* addRemovedBefore()
AddRemovedBefore ==
    /\ SortToolsOnly
    /\ ret' = IF ~ret.hasRemoved THEN ret
              ELSE [allUrl |-> ret.removed \o ret.allUrl, removed |-> <<>>, hasRemoved |-> FALSE]

\* addRemovedAfter()
AddRemovedAfter ==
    /\ SortToolsOnly
    /\ ret' = IF ~ret.hasRemoved THEN ret
              ELSE [allUrl |-> ret.allUrl \o ret.removed, removed |-> <<>>, hasRemoved |-> FALSE]

\* result()
result(tools) == tools.allUrl

SortNext ==
    \/ Remove
    \/ SortAsc
    \/ AddRemovedBefore
    \/ AddRemovedAfter

\* the calls a sortPagesToDownload hook makes on its UrlSortTools
SortSpec == SortInit /\ [][SortNext]_vars

\* the options of the crawls of MirrorSpec: a canIgnoreIfAlreadyCrawled
\* hook and an onUrl hook are configured, with a writer or without
MirrorOptions ==
    [writer : BOOLEAN, onInvalidResponseCodeFound : {FALSE},
     onPageFullyDownloaded : {FALSE}, canDownload : {FALSE},
     canIgnoreIfAlreadyCrawled : {TRUE}, onUrl : {TRUE}]

MirrorInit == CrawlerInit(MirrorOptions)

\* the fetch answers 200 with a body of MirrorBodies
MirrorFetchOk == FetchOkFrom(MirrorBodies)

MirrorNext ==
    \/ Start
    \/ ProcessStackNext
    \/ ProcessUrlBegin
    \/ HasInCacheReturns
    \/ MirrorFetchOk
    \/ MkdirReturns
    \/ WriteReturns
    \/ AfterPageUrl
    \/ AfterResourceUrl
    \/ Drain
    \/ PageDone

\* one start() call on a crawler that reads its mirror, on a site whose
\* urls share mirror files and whose every answer is a 200
MirrorSpec == MirrorInit /\ [][MirrorNext]_vars

RewriterNext ==
    \/ RewriteElement
    \/ RewriteSrcset
    \/ NextElement

RewriterSpec == RewriterInit /\ [][RewriterNext]_vars

-----------------------------------------------------------------------------
(* The claims.                                                             *)

\* the urls the scheduler holds: the page of the current group, the pages
\* of the queued groups, and what is on a stack
SchedulerUrls ==
    {groups[currentGroup].url}
        \cup {groups[groupStack[i]].url : i \in 1..Len(groupStack)}
        \cup UNION {Range(groups[g].stack) : g \in 1..Len(groups)}

urlA == <<"https", ":", "/", "/", "site", "/", "a">>

urlCss == <<"https", ":", "/", "/", "site", "/", "s", ".", "css">>

urlPng == <<"https", ":", "/", "/", "site", "/", "t", ".", "png">>

\* C1: during a crawl no url, the entry point included, is given to
\* processUrl more than once.
C1_NoUrlFetchedTwice == \A u \in BagToSet(fetchLog) : CopiesIn(u, fetchLog) <= 1

\* C2: with no onInvalidResponseCodeFound hook a start() call that was made
\* always ends, whatever the pages link to; when it returns without a hook having
\* halted it, the group queue is empty.
C2_Terminates ==
    /\ (pc # "idle" /\ ~options.onInvalidResponseCodeFound) ~> (pc \in {"done", "thrown"})
    /\ [](pc = "done" /\ hookLog # "stop" => groupStack = <<>>)

\* C2's case: the crawl ended although the entry page was linked again from
\* a page fetched later
C2_Witness ==
    /\ pc = "done"
    /\ ~options.onInvalidResponseCodeFound
    /\ groupStack = <<>>
    /\ CopiesIn(urlA, fetchLog) = 2
    /\ urlCss \in BagToSet(fetchLog)

\* C3: a resource is fetched only after the page of its group; when
\* processGroup has returned, and so before the page of the next group is
\* fetched, the group has nothing left on its stack nor in the list of the
\* drain pass; no other group holds a stack.
C3_TwoTier ==
    /\ kind = "res" /\ pc \in {"processUrl", "fetch"}
          => /\ groups[group].url \in BagToSet(fetchLog)
             /\ resIdx <= Len(resources) /\ resources[resIdx] = url
    /\ pc \in {"loop", "done"} /\ group # 0
          => groups[group].stack = <<>> /\ resIdx > Len(resources)
    /\ kind = "page" /\ pc \in {"processUrl", "fetch"} => resources = <<>>
    /\ pc # "loop" => \A g \in 1..Len(groups) : g # group => groups[g].stack = <<>>

\* C3's case: the page of a next group is about to be fetched after a group
\* whose drain took a second pass
C3_Witness == pc = "processUrl" /\ kind = "page" /\ passes >= 2

\* C4: every url the scheduler holds came out of the url pipeline and is
\* in urlDone.
C4_SchedulerUrlsAdmitted ==
    pc # "idle" => \A u \in SchedulerUrls : cleanUpUrl(u) = u /\ Includes(urlDone, u)

\* C5: every url the pipeline admits, and so every url of urlDone, has the
\* origin of the output site.
C5_AdmittedOriginIsOutput ==
    pc = "rewritten" =>
        /\ ret.url # Null => UrlOrigin(ret.url) = newWebSite_lcBasePath
        /\ \A u \in Range(urlDone) : UrlOrigin(u) = newWebSite_lcBasePath

\* C11: the rewriter replaces no href, src or srcset entry whose url
\* pushUrl rejected (returned the empty string) by a local link.
C11_RejectedNotRewritten ==
    /\ pc = "rewritten" /\ ret.url = Null => ret.link = arg
    /\ pc = "rewrittenSrcset" =>
          \A i \in 1..Len(ret.entries) :
              ret.entries[i].pushed = Null => ret.entries[i].written = ret.entries[i].raw

\* C14: with a canDownload hook every url given to processUrl, the entry
\* point apart, is one the hook allows for its kind.
C14_FetchedWereAllowed ==
    options.canDownload /\ pc = "processUrl" /\ ~(kind = "page" /\ group = 2)
        => canDownload(url, isResource(url))

\* C6: processUrl is never called with a url that a forbidden prefix
\* matches at the time of the call.
C6_ForbiddenNeverFetched == pc = "processUrl" => ~IsForbidden(url)

\* C7: a start() call made while a first call runs changes neither the
\* group queue, nor the current group, nor urlDone.
C7_SecondStartIsNoOp ==
    [][(startCalls' # startCalls /\ isStarted) =>
            UNCHANGED <<groupStack, currentGroup, urlDone>>]_vars

\* C8: once onPageFullyDownloaded answered false, directly or through a
\* Promise, no further group is taken from the queue: the loop is left.
C8_FalseHaltsLoop == hookLog = "stop" => pc \in {"loop", "done"}

\* C9: no error of a fetch or of the filesystem leaves start().
C9_NoErrorPropagates == pc # "thrown"

\* C10: the link written for an admitted url of the output origin, followed
\* from the mirror file of the current page, designates the mirror file of
\* that url.
C10_RelativeLinkResolves ==
    pc = "rewritten" /\ ret.url # Null /\ UrlOrigin(ret.url) = newWebSite_lcBasePath
        => LinkTarget(groups[currentGroup].url, ret.link) = PathSegments(calcFilePath(ret.url))

\* C12: without onInvalidResponseCodeFound hook processUrl sleeps
\* 1000 * retryCount ms (0, 1000, 2000) before a retry, counts each retry,
\* never retries more than 3 times and returns ERROR only when 3 retries
\* were made.
C12_DefaultRetryPolicy ==
    /\ [](~options.onInvalidResponseCodeFound => retryCount <= 3)
    /\ [](pc = "tick" =>
            /\ ~options.onInvalidResponseCodeFound
            /\ IsInvalidStatus(fetchRes.status)
            /\ retryCount < 3
            /\ tickDelay \in {0, 1000, 2000})
    /\ [][pc = "tick" /\ pc' # "tick" => pc' = "fetch" /\ retryCount' = retryCount + 1]_vars
    /\ [][~options.onInvalidResponseCodeFound /\ pc = "fetch" /\ resState' = "error"
            => retryCount = 3 /\ pc' = "afterUrl"]_vars

\* C12's case: the fetch after the third retry of the default policy
C12_Witness ==
    ~options.onInvalidResponseCodeFound /\ pc = "fetch" /\ retryCount = 3

C20_OnlyNon2xxRetried ==
    pc \in {"tick", "invalidAwait"} => ~(fetchRes.status >= 200 /\ fetchRes.status < 300)

\* C16: when an HTML body is rewritten, the url of the current group is
\* the url of the page the body was fetched for.
C16_CurrentGroupIsRewrittenPage ==
    [][pc = "fetch" /\ fetchRes'.contentType = "text/html"
            => groups[currentGroup].url = url]_vars

\* C19: every url fetched in the drain of a group has a resource extension.
C19_DrainFetchesResourcesOnly ==
    kind = "res" /\ pc = "processUrl" => isResource(url)

urlB == <<"https", ":", "/", "/", "site", "/", "b">>

\* the urls of the groups that a step put on the queue
Enqueued == 
    [i \in 1..(Len(groupStack') - Len(groupStack)) |->
        groups'[groupStack'[Len(groupStack) + i]].url]

\* C15: the group queue is first in, first out: a step either leaves it,
\* or takes its head as the group to process, or adds groups at its tail;
\* the pages a group adds are the page-like urls of its stack, in the order
\* of the stack.
C15_Fifo ==
    /\ [][\/ groupStack' = groupStack
          \/ /\ groupStack # <<>>
             /\ groupStack' = Tail(groupStack)
             /\ group' = Head(groupStack)
          \/ StartsWith(groupStack', groupStack)]_vars
    /\ [][pc = "afterUrl" /\ kind = "page"
            => /\ StartsWith(groupStack', groupStack)
               /\ Enqueued = SelectSeq(groups[group].stack, IsNotResource)]_vars

\* C15's case: two pages found on one page were queued in the order of the
\* body, the first was processed, the second is about to be
C15_Witness ==
    /\ pc = "processUrl" /\ kind = "page" /\ group = 4
    /\ groups[3].url = urlB /\ groups[4].url = urlA
    /\ CopiesIn(urlB, fetchLog) = 1

\* C17: pushUrl of a url that a forbidden prefix matches and that is not in
\* urlDone appends it to urlDone, leaves the stack of the current group
\* alone and returns the cleaned url; pushUrl of it once it is in urlDone
\* returns it and changes nothing.
C17_ForbiddenSeenNotStacked ==
    [][pc = "processHtml" /\ pc' = "rewritten" =>
        LET u == cleanUpUrl(arg)
        IN u # Null /\ IsForbidden(u) =>
              /\ ret'.url = u
              /\ groups' = groups
              /\ groupStack' = groupStack
              /\ urlDone' = IF Includes(urlDone, u) THEN urlDone ELSE Append(urlDone, u)]_vars

\* C17's case: a forbidden url was pushed: it is in urlDone, not on the
\* stack, and was returned
C17_Witness ==
    /\ pc = "rewritten" /\ ret.url # Null /\ IsForbidden(ret.url)
    /\ Includes(urlDone, ret.url)
    /\ ~Includes(groups[currentGroup].stack, ret.url)

NoDuplicates(s) == \A i, j \in 1..Len(s) : i # j => s[i] # s[j]

\* C18: urlDone never holds a url twice and only grows at its end; in every
\* state, for every reference u, pushUrl(u) after pushUrl(u) changes
\* nothing and returns what the first call returned.
C18_PushIdempotent ==
    /\ [](NoDuplicates(urlDone))
    /\ [][StartsWith(urlDone', urlDone)]_vars
    /\ [](\A u \in FifoRefs \cup RawRefs \cup RewriterRefs :
            LET once == pushUrl(PushState, u)
            IN /\ pushUrl(once, u) = once
               /\ pushUrlResult(u) # Null => Includes(once.urlDone, pushUrlResult(u)))

\* C18's case: urls were pushed during a crawl and a reference to one of
\* them may come again
C18_Witness ==
    /\ Len(urlDone) >= 2
    /\ \E u \in FifoRefs : pushUrlResult(u) # Null /\ Includes(urlDone, pushUrlResult(u))
    /\ \E u \in FifoRefs : pushUrlResult(u) # Null /\ ~Includes(urlDone, pushUrlResult(u))

\* C21: a fetch answered with a 3xx status makes processUrl return
\* REDIRECTED at once: no retry, no tick, nothing is handed to the mirror.
\* The Location header goes through pushUrl: absent, out of scope or
\* already in urlDone it changes nothing; else it is added to urlDone and,
\* unless a forbidden prefix matches it, to the stack of currentGroup.
C21_Redirect ==
    [][pc = "fetch" /\ IsRedirectStatus(fetchRes'.status) =>
          /\ pc' = "afterUrl" /\ resState' = "redirected"
          /\ UNCHANGED <<faults, groupStack, currentGroup, forbiddenUrls, fetchLog>>
          /\ LET u == cleanUpUrl(arg')
             IN IF arg' = Null \/ u = Null \/ Includes(urlDone, u)
                THEN UNCHANGED <<urlDone, groups>>
                ELSE /\ urlDone' = Append(urlDone, u)
                     /\ groups' = IF IsForbidden(u) THEN groups
                                  ELSE [groups EXCEPT ![currentGroup].stack = Append(@, u)]]_vars

\* C21's case: processUrl returned REDIRECTED and the target of the Location
\* header is the last url of the stack of currentGroup
C21_Witness ==
    /\ pc = "afterUrl" /\ resState = "redirected" /\ IsRedirectStatus(fetchRes.status)
    /\ arg # Null
    /\ LET stack == groups[currentGroup].stack
       IN stack # <<>> /\ stack[Len(stack)] = cleanUpUrl(arg)

\* the hooks of name hook that the running processUrl call has called
CallsOf(hook) == SelectSeq(calls, LAMBDA c : c.hook = hook)

\* C22: processUrl returns IGNORED from before its first fetch, with no
\* onUrl call and no write to the mirror, when the mapping is null or when
\* hasInCache found the file and canIgnoreIfAlreadyCrawled answered true.
\* The hook is asked only with a writer and after hasInCache found the
\* file; when it answers false, onUrl is called and the url is fetched.
C22_Ignored ==
    /\ [](resState = "ignored" =>
            /\ CallsOf("onUrl") = <<>>
            /\ \/ infos = NoInfos /\ calls = <<>>
               \/ /\ infos = "found" /\ ReadsMirror
                  /\ calls = <<HookCall("canIgnoreIfAlreadyCrawled", "true")>>)
    /\ [][resState' = "ignored" /\ resState # "ignored" =>
            /\ pc \in {"processUrl", "hasInCache"} /\ pc' = "afterUrl"
            /\ UNCHANGED <<mirror, urlDone, groups, faults>>]_vars
    /\ [](CallsOf("canIgnoreIfAlreadyCrawled") # <<>> => infos = "found" /\ ReadsMirror)
    /\ [](infos # NoInfos => ReadsMirror)
    /\ [][pc = "hasInCache" /\ calls' # <<>> /\ calls'[1] = HookCall("canIgnoreIfAlreadyCrawled", "false") =>
            /\ pc' = "fetch" /\ retryCount' = 0
            /\ calls' = <<HookCall("canIgnoreIfAlreadyCrawled", "false"), HookCall("onUrl", "undefined")>>]_vars

\* C22's case: the file of the url was found in the mirror, the hook
\* answered true and processUrl returned IGNORED
C22_Witness ==
    /\ pc = "afterUrl" /\ resState = "ignored"
    /\ infos = "found"
    /\ calls = <<HookCall("canIgnoreIfAlreadyCrawled", "true")>>

\* C24: two distinct urls that were written to the mirror were written to
\* distinct files.
C24_WritesDoNotCollide ==
    \A m1, m2 \in mirror : m1.url # m2.url => m1.file # m2.file

\* a reference without "://" that starts with none of "#", "?", "/" and
\* has no excluded scheme
IsRelativeRef(u) ==
    /\ u # <<>>
    /\ ~IncludesSeq(u, <<":", "/", "/">>)
    /\ u[1] \notin {"#", "?", "/"}
    /\ ~\E sch \in ExcludedSchemes : StartsWith(u, <<sch, ":">>)

\* C23: the url pushUrl returns for a relative reference found in a
\* document is the reference resolved against the output origin, and it is
\* in urlDone.
C23_RelativeAdmitted ==
    pc = "rewritten" /\ IsRelativeRef(arg) =>
        /\ ret.url = UrlResolve(arg, newWebSite_urlInfos)
        /\ Includes(urlDone, ret.url)

\* how often x occurs in list
Occurrences(list, x) == Cardinality({i \in 1..Len(list) : list[i] = x})

\* C26: whenever no removed urls wait to be added back, result() holds
\* every url of the list given to the constructor, as often as the list does.
C26_SortPreservesUrls ==
    pc = "sortPagesToDownload" /\ ~ret.hasRemoved =>
        \A u \in SortUrls : Occurrences(result(ret), u) = Occurrences(arg, u)

\* C27: isStarted is set only while a start() call runs: it is not set
\* before the call, after the call returned, or after it ended with an error.
C27_StartedOnlyWhileRunning == pc \in {"idle", "done", "thrown"} => ~isStarted

\* the groups taken from the queue so far
TakenGroups == {g \in 2..Len(groups) : ~Includes(groupStack, g)}

\* C25: when processGroup comes to its onPageFullyDownloaded call, the page
\* of the group and every resource of its drain have been processed, the
\* result of the page is at hand, and every page-like url that processUrl
\* was called with so far is the page of a group taken from the queue.
C25_GroupLifecycle ==
    pc = "pageDone" =>
        /\ processResponse \in {"ok", "redirected", "error", "ignored"}
        /\ resIdx > Len(resources) /\ groups[group].stack = <<>>
        /\ BagIn(groups[group].url, fetchLog)
        /\ \A u \in BagToSet(fetchLog) :
              IsNotResource(u) => \E g \in TakenGroups : groups[g].url = u

====
